---- MODULE Spec2Model ----
(***************************************************************************)
(* One inbound HTTP request handled by one of the five handler variants of *)
(* the repository:                                                         *)
(*   chat_responses   src/api/chat.js      lines 4-82   (Responses API)    *)
(*   chat_assistants  src/api/chat.js      lines 117-244 (Assistants API)  *)
(*   part_000         src/unnamed/part_000 (Assistants API, vector stores  *)
(*                                          attached at run creation)      *)
(*   part_001         src/unnamed/part_001 (Responses API)                 *)
(*   part_002         src/unnamed/part_002 (Responses API, no validation)  *)
(* A string is a sequence of pieces: data strings are sequences of one     *)
(* character pieces, a literal of the source is one piece.  An optional    *)
(* value is a sequence of length at most one (None, Some(v)).              *)
(***************************************************************************)
EXTENDS Integers, Sequences, FiniteSets, TLC

VARIABLES
    variant,   \* which handler serves the request
    req,       \* the inbound request: method and body
    env,       \* process.env: OPENAI_API_KEY and FILE_IDS / VECTOR_STORE_IDS
    pc,        \* where the handler is suspended (which await)
    calls,     \* the external calls issued so far, in order
    reply,     \* head of the last external HTTP response received
    data,      \* parsed JSON of the last successful payload that is read
    run,       \* waitForRun: the run object of the last status check
    now,       \* Date.now(), in ms since the request arrived
    start,     \* waitForRun: const start
    err,       \* the exception caught by the handler's catch block
    res        \* the response written to the caller

vars == <<variant, req, env, pc, calls, reply, data, run, now, start, err, res>>

----------------------------------------------------------------------------
(* Optional values and strings *)

None == <<>>
Some(v) == <<v>>
IsSome(o) == Len(o) = 1
Get(o) == o[1]

L(piece) == <<piece>>

IsSpace(c) == c \in {" ", "\n"}

RECURSIVE TrimStart(_)
TrimStart(s) ==
    IF s # <<>> /\ IsSpace(Head(s)) THEN TrimStart(Tail(s)) ELSE s

RECURSIVE TrimEnd(_)
TrimEnd(s) ==
    IF s # <<>> /\ IsSpace(s[Len(s)]) THEN TrimEnd(SubSeq(s, 1, Len(s) - 1)) ELSE s

Trim(s) == TrimEnd(TrimStart(s))

RECURSIVE SplitAcc(_, _, _)
SplitAcc(s, sep, cur) ==
    IF s = <<>> THEN <<cur>>
    ELSE IF Head(s) = sep THEN <<cur>> \o SplitAcc(Tail(s), sep, <<>>)
    ELSE SplitAcc(Tail(s), sep, Append(cur, Head(s)))

Split(s, sep) == SplitAcc(s, sep, <<>>)

RECURSIVE Join(_, _)
Join(parts, sep) ==
    IF parts = <<>> THEN <<>>
    ELSE IF Len(parts) = 1 THEN parts[1]
    ELSE parts[1] \o sep \o Join(Tail(parts), sep)

RECURSIVE Concat(_)
Concat(parts) == IF parts = <<>> THEN <<>> ELSE Head(parts) \o Concat(Tail(parts))

Contains(s, sub) ==
    \E i \in 0..(Len(s) - Len(sub)) : SubSeq(s, i + 1, i + Len(sub)) = sub

Truthy(s) == s # <<>>

----------------------------------------------------------------------------
(* Program constants *)

SleepMs == 1200
TimeoutChat == 45000
TimeoutPart000 == 60000

(* Model bounds *)
MaxLatency == 1

----------------------------------------------------------------------------
(* Inputs *)

Variants == {"chat_responses", "chat_assistants", "part_000", "part_001", "part_002"}
PollingVariants == {"chat_assistants", "part_000"}
ResponsesVariants == {"chat_responses", "part_001", "part_002"}

Methods == {"POST", "OPTIONS", "GET"}

\* req.body: absent, or an object whose question is absent or a string
Questions == {None, Some(<<>>), Some(<<" ">>), Some(<<" ", "q", " ">>)}
Bodies == {None} \cup {Some([question |-> qn]) : qn \in Questions}

\* process.env values: unset, or a string
Keys == {None, Some(<<>>), Some(<<"k">>)}
IdLists == {None, Some(<<>>), Some(<<" ", ",", " ">>), Some(<<" ", "v", ",", "w">>)}

ErrStatuses == {400, 429, 500}
StatusText(s) == CASE s = 400 -> "400" [] s = 429 -> "429" [] s = 500 -> "500" [] OTHER -> "200"

\* body of a non-2xx reply: its text, and whether JSON.parse accepts the text
ErrBodies == {
    [text |-> <<>>, json |-> FALSE],
    [text |-> <<"upstream unavailable">>, json |-> FALSE],
    [text |-> <<"{\"error\":{\"message\":\"bad request\"}}">>, json |-> TRUE] }

NoReply == [ok |-> TRUE, status |-> 0, body |-> [text |-> <<>>, json |-> FALSE], call |-> "none"]
OkReply(call) == [ok |-> TRUE, status |-> 200, body |-> [text |-> <<>>, json |-> TRUE], call |-> call]
ErrReply(call, s, b) == [ok |-> FALSE, status |-> s, body |-> b, call |-> call]

----------------------------------------------------------------------------
(* Payloads of the external service *)

\* Responses API: content segments, output items, response objects
Seg(type, text) == [type |-> type, text |-> text]
otA == Seg("output_text", Some(<<"A">>))
otB == Seg("output_text", Some(<<"B">>))
otSp == Seg("output_text", Some(<<" ">>))
refusal == Seg("refusal", None)

Item(type, content) == [type |-> type, content |-> content]

Outputs == {
    None,
    Some(<<>>),
    Some(<<Item("message", Some(<<otA, otB>>))>>),
    Some(<<Item("message", Some(<<otSp>>))>>),
    Some(<<Item("file_search_call", None),
           Item("message", Some(<<otSp, otA>>)),
           Item("message", Some(<<refusal, otB, otSp>>))>>) }

OutputTexts == {None, Some(<<>>), Some(<<"X">>), Some(<<" ", "X">>)}

ResponsesPayloads ==
    [output_text : OutputTexts, output : Outputs, error : {None}]
    \cup {[output_text |-> None, output |-> None, error |-> Some(<<"upstream error object">>)]}

\* Assistants API: message content parts, messages, message lists
Part(type, value) == [type |-> type, value |-> value]
tA == Part("text", Some(<<"A">>))
tB == Part("text", Some(<<"B">>))
tSp == Part("text", Some(<<" ">>))
tEmpty == Part("text", Some(<<>>))
img == Part("image_file", None)

Msg(role, content) == [role |-> role, content |-> content]

MessageLists == {
    None,
    Some(<<>>),
    Some(<<Msg("assistant", <<tA>>)>>),
    Some(<<Msg("assistant", <<tSp, tA, img, tB, tEmpty, tSp>>)>>),
    Some(<<Msg("assistant", <<img>>)>>),
    Some(<<Msg("user", <<tB>>)>>),
    Some(<<Msg("assistant", <<tA, tB>>), Msg("user", <<tB>>)>>),
    Some(<<Msg("user", <<tB>>), Msg("assistant", <<tA>>)>>),
    Some(<<Msg("user", <<tB>>), Msg("user", <<tA>>)>>) }

\* messages?order=desc&limit=N: the service returns at most N messages
ListLimit(v) == IF v = "chat_assistants" THEN 1 ELSE 5

ListPayloads(v) ==
    {[data |-> d] : d \in {m \in MessageLists : IsSome(m) => Len(Get(m)) <= ListLimit(v)}}

\* Run objects returned by GET /threads/{id}/runs/{id}
RunStatuses == {"queued", "in_progress", "requires_action",
                "completed", "failed", "cancelled", "expired"}
FailedStatuses == {"failed", "cancelled", "expired"}
TerminalStatuses == {"completed"} \cup FailedStatuses

\* last_error: absent, or an object with an optional message and code
LastErrors == {
    None,
    Some([message |-> Some(<<"boom">>), code |-> Some(<<"server_error">>)]),
    Some([message |-> None, code |-> Some(<<"rate_limit_exceeded">>)]),
    Some([message |-> Some(<<>>), code |-> None]) }

Runs ==
    {[status |-> s, last_error |-> None] : s \in RunStatuses \ FailedStatuses}
    \cup [status : FailedStatuses, last_error : LastErrors]

NoRun == [status |-> "none", last_error |-> None]

----------------------------------------------------------------------------
(* Responses to the caller *)

EmptyBody == [error |-> None, detail |-> None, answer |-> None,
              hint |-> None, reply |-> None, sources |-> None]

\* a detail is a JSON string (json = FALSE) or an embedded JSON value
Text(s) == [text |-> s, json |-> FALSE]

Json(status, body) == [status |-> status, kind |-> "json", body |-> body]
End(status) == [status |-> status, kind |-> "end", body |-> EmptyBody]

ErrorOnly(status, msg) == Json(status, [EmptyBody EXCEPT !.error = Some(L(msg))])
ErrorDetail(status, msg, detail) ==
    Json(status, [EmptyBody EXCEPT !.error = Some(L(msg)), !.detail = Some(detail)])

\* Error objects and String(err)
Error(message) == [name |-> "Error", message |-> message]
TypeError(message) == [name |-> "TypeError", message |-> message]

ErrToString(e) ==
    IF e.message = <<>> THEN L(e.name) ELSE <<e.name, ": ">> \o e.message

\* the catch block of each handler
Catch(v, e) ==
    CASE v \in {"chat_responses", "chat_assistants", "part_001"} ->
            ErrorDetail(500, "Server error", Text(ErrToString(e)))
      [] v = "part_000" ->
            ErrorDetail(500, "Server error",
                Text(IF Truthy(e.message) THEN e.message ELSE ErrToString(e)))
      [] v = "part_002" ->
            Json(500, [EmptyBody EXCEPT !.error = Some(e.message)])

\* readJsonOrText and JSON.stringify of its result
readJsonOrText(body) == body

Stringify(detail) ==
    IF detail.json THEN detail.text ELSE <<"\"">> \o detail.text \o <<"\"">>

----------------------------------------------------------------------------
(* Request validation and configuration *)

\* const { question } = req.body || {}
QuestionOf(body) == IF IsSome(body) THEN Get(body).question ELSE None

\* (question || "").toString().trim()
TrimmedQuestion(body) ==
    LET qn == QuestionOf(body)
    IN  Trim(IF IsSome(qn) /\ Truthy(Get(qn)) THEN Get(qn) ELSE <<>>)

\* the test that rejects a request for want of a question
NoQuestion(v, body) ==
    IF v = "chat_responses"
    THEN LET qn == QuestionOf(body)
         IN  ~IsSome(qn) \/ ~Truthy(Get(qn)) \/ ~Truthy(Trim(Get(qn)))
    ELSE ~Truthy(TrimmedQuestion(body))

\* (process.env.X || "").split(",").map(s => s.trim()).filter(Boolean)
ParseIds(o) ==
    LET raw == Split(IF IsSome(o) THEN Get(o) ELSE <<>>, ",")
        trimmed == [i \in 1..Len(raw) |-> Trim(raw[i])]
    IN  SelectSeq(trimmed, Truthy)

KeyMissing(o) == ~IsSome(o) \/ ~Truthy(Get(o))

timeoutMs(v) == IF v = "chat_assistants" THEN TimeoutChat ELSE TimeoutPart000

----------------------------------------------------------------------------
(* Text extraction *)

SegText(c) == Get(c.text)
IsOutputText(c) == c.type = "output_text" /\ IsSome(c.text)

ItemParts(item) ==
    IF item.type = "message" /\ IsSome(item.content)
    THEN LET kept == SelectSeq(Get(item.content), IsOutputText)
         IN  [i \in 1..Len(kept) |-> SegText(kept[i])]
    ELSE <<>>

RECURSIVE OutputParts(_)
OutputParts(output) ==
    IF output = <<>> THEN <<>>
    ELSE ItemParts(Head(output)) \o OutputParts(Tail(output))

\* data.output_text || ""
OutputTextOf(d) ==
    IF IsSome(d.output_text) THEN Get(d.output_text) ELSE <<>>

\* chat.js 56-67, part_001 63-74
StitchedAnswer(d) ==
    LET first == OutputTextOf(d)
    IN  IF ~Truthy(first) /\ IsSome(d.output)
        THEN Trim(Join(OutputParts(Get(d.output)), <<"\n">>))
        ELSE first

\* chat.js 220-230: the first listed message, whatever its role
IsTextPart(p) == p.type = "text" /\ IsSome(p.value)
PartValue(p) == Get(p.value)

LatestText(d) ==
    IF IsSome(d.data) /\ Get(d.data) # <<>>
    THEN LET latest == Get(d.data)[1]
             kept == SelectSeq(latest.content, IsTextPart)
         IN  Trim(Concat([i \in 1..Len(kept) |-> PartValue(kept[i])]))
    ELSE <<>>

\* part_000 77-86: the first assistant message, each value followed by "\n"
IsTruthyTextPart(p) == p.type = "text" /\ IsSome(p.value) /\ Truthy(Get(p.value))
IsAssistant(m) == m.role = "assistant"

getLatestAssistantText(d) ==
    LET list == IF IsSome(d.data) THEN Get(d.data) ELSE <<>>
        found == SelectSeq(list, IsAssistant)
    IN  IF found = <<>> THEN <<>>
        ELSE LET kept == SelectSeq(found[1].content, IsTruthyTextPart)
             IN  Trim(Concat([i \in 1..Len(kept) |-> PartValue(kept[i]) \o <<"\n">>]))

----------------------------------------------------------------------------
(* waitForRun *)

\* the loop guard with <= in place of <
LoopContinues_Inclusive(v, t, st) == t - st <= timeoutMs(v)

\* while (Date.now() - start < timeoutMs)
LoopContinues(v, t, st) == t - st < timeoutMs(v)

\* the completed test with a misspelt status name
IsCompleted_Misspelt(r) == r.status = "complete"

IsCompleted(r) == r.status = "completed"
IsHardStop(r) == r.status \in FailedStatuses

\* run.last_error?.message and run.last_error?.code, "" when absent
LastErrorMessage(r) ==
    IF IsSome(r.last_error) /\ IsSome(Get(r.last_error).message)
    THEN Get(Get(r.last_error).message) ELSE <<>>

LastErrorCode(r) ==
    IF IsSome(r.last_error) /\ IsSome(Get(r.last_error).code)
    THEN Get(Get(r.last_error).code) ELSE <<>>

\* the failure message built from the status alone, last_error ignored
RunFailureMessage_StatusOnly(v, r) == <<"Run ", r.status>>

\* the message of the Error thrown on failed / cancelled / expired
RunFailureMessage(v, r) ==
    IF v = "chat_assistants"
    THEN <<"Run ", r.status, ": ">> \o LastErrorMessage(r)
    ELSE IF Truthy(LastErrorMessage(r)) THEN LastErrorMessage(r)
         ELSE <<"Run ", r.status>> \o
              (IF Truthy(LastErrorCode(r)) THEN <<" (">> \o LastErrorCode(r) \o <<")">> ELSE <<>>)

\* the message of the Error thrown when the status check is not ok
RunStatusErrorMessage(v, rep) ==
    IF v = "chat_assistants"
    THEN <<"Run status error: ">> \o rep.body.text
    ELSE <<"Run status error ", StatusText(rep.status), ": ">> \o Stringify(readJsonOrText(rep.body))

TimeoutMessage == <<"Run timed out waiting for completion">>

\* time a status check may take beyond nothing at all
Latencies == {d * 600 : d \in 0..MaxLatency}

----------------------------------------------------------------------------
(* Steps of the handler *)

Init ==
    /\ variant \in Variants
    /\ req \in [method : Methods, body : Bodies]
    /\ env \in [key : Keys, ids : IdLists]
    /\ pc = "start"
    /\ calls = <<>>
    /\ reply = NoReply
    /\ data = None
    /\ run = NoRun
    /\ now = 0
    /\ start = 0
    /\ err = None
    /\ res = None

Respond(r) ==
    /\ res' = Some(r)
    /\ pc' = "done"

Issue(call) ==
    /\ calls' = Append(calls, call)
    /\ pc' = call

Throw(e) ==
    /\ err' = Some(e)
    /\ Respond(Catch(variant, e))

\* what the handler answers before any external call, None when it goes on
EarlyResponse(v, rq, e) ==
    CASE v \in {"chat_responses", "part_001"} ->
            IF rq.method # "POST" THEN Some(ErrorOnly(405, "Use POST"))
            ELSE IF NoQuestion(v, rq.body)
                 THEN Some(ErrorOnly(400,
                          IF v = "chat_responses" THEN "No question" ELSE "No question provided"))
            ELSE IF KeyMissing(e.key) THEN Some(ErrorOnly(500, "Missing OPENAI_API_KEY"))
            ELSE None
      [] v = "part_002" ->
            IF rq.method # "POST" THEN Some(ErrorOnly(405, "Method not allowed"))
            ELSE None
      [] v \in PollingVariants ->
            IF rq.method = "OPTIONS" THEN Some(End(200))
            ELSE IF rq.method # "POST" THEN Some(ErrorOnly(405, "Use POST"))
            ELSE IF NoQuestion(v, rq.body) THEN Some(ErrorOnly(400, "No question provided"))
            ELSE IF KeyMissing(e.key) THEN Some(ErrorOnly(500, "Missing OPENAI_API_KEY"))
            ELSE IF Len(ParseIds(e.ids)) = 0
                 THEN Some(ErrorDetail(500, "No vector store configured",
                          Text(L("Set VECTOR_STORE_IDS and redeploy."))))
            ELSE None

FirstCall(v) == IF v \in PollingVariants THEN "create_assistant" ELSE "responses"

\* part_002 line 7: const { question } = req.body, inside the try
DestructureThrows(v, rq) == v = "part_002" /\ ~IsSome(rq.body)

HandleRequest ==
    /\ pc = "start"
    /\ LET early == EarlyResponse(variant, req, env)
       IN  IF IsSome(early)
           THEN Respond(Get(early)) /\ UNCHANGED <<calls, err>>
           ELSE IF DestructureThrows(variant, req)
           THEN Throw(TypeError(L("Cannot destructure property 'question' of 'req.body' as it is undefined.")))
                /\ UNCHANGED calls
           ELSE Issue(FirstCall(variant)) /\ UNCHANGED <<res, err>>
    /\ UNCHANGED <<variant, req, env, reply, data, run, now, start>>

\* a create call answered with a non-2xx status
CreateError(v, label, rep) ==
    ErrorDetail(rep.status, label,
        IF v = "part_000" THEN readJsonOrText(rep.body) ELSE Text(rep.body.text))

\* a create call that is issued again when it is answered with a non-2xx status
CreateReturns_Retry(call, label, next) ==
    /\ pc = call
    /\ \/ \E s \in ErrStatuses, b \in ErrBodies :
            /\ reply' = ErrReply(call, s, b)
            /\ Issue(call)
            /\ UNCHANGED <<res, start>>
       \/ /\ reply' = OkReply(call)
          /\ IF next = "poll"
             THEN pc' = "poll" /\ start' = now /\ UNCHANGED calls
             ELSE Issue(next) /\ UNCHANGED start
          /\ UNCHANGED res
    /\ UNCHANGED <<variant, req, env, data, run, now, err>>

CreateReturns(call, label, next) ==
    /\ pc = call
    /\ \/ \E s \in ErrStatuses, b \in ErrBodies :
            /\ reply' = ErrReply(call, s, b)
            /\ Respond(CreateError(variant, label, reply'))
            /\ UNCHANGED <<calls, start>>
       \/ /\ reply' = OkReply(call)
          /\ IF next = "poll"
             THEN pc' = "poll" /\ start' = now /\ UNCHANGED calls
             ELSE Issue(next) /\ UNCHANGED start
          /\ UNCHANGED res
    /\ UNCHANGED <<variant, req, env, data, run, now, err>>

CreateAssistantReturns == CreateReturns("create_assistant", "Create assistant error", "create_thread")
CreateThreadReturns == CreateReturns("create_thread", "Create thread error", "create_run")
CreateRunReturns == CreateReturns("create_run", "Create run error", "poll")

\* head of the while loop of waitForRun
PollCheck ==
    /\ pc = "poll"
    /\ IF LoopContinues(variant, now, start)
       THEN Issue("run_status") /\ UNCHANGED <<res, err>>
       ELSE Throw(Error(TimeoutMessage)) /\ UNCHANGED calls
    /\ UNCHANGED <<variant, req, env, reply, data, run, now, start>>

RunStatusReturns ==
    /\ pc = "run_status"
    /\ \E d \in Latencies : now' = now + d
    /\ \/ \E s \in ErrStatuses, b \in ErrBodies :
            /\ reply' = ErrReply("run_status", s, b)
            /\ Throw(Error(RunStatusErrorMessage(variant, reply')))
            /\ UNCHANGED <<calls, run>>
       \/ \E r \in Runs :
            /\ reply' = OkReply("run_status")
            /\ run' = r
            /\ IF IsCompleted(r) THEN Issue("list_messages") /\ UNCHANGED <<res, err>>
               ELSE IF IsHardStop(r)
               THEN Throw(Error(RunFailureMessage(variant, r))) /\ UNCHANGED calls
               ELSE pc' = "sleep" /\ UNCHANGED <<calls, res, err>>
    /\ UNCHANGED <<variant, req, env, data, start>>

\* await sleep(1200)
SleepReturns ==
    /\ pc = "sleep"
    /\ now' = now + SleepMs
    /\ pc' = "poll"
    /\ UNCHANGED <<variant, req, env, calls, reply, data, run, start, err, res>>


\* the 200 response built from the extracted answer
AnswerOnly(answer) == Json(200, [EmptyBody EXCEPT !.answer = Some(answer)])

\* chat.js 69-77
ChatResponsesResult(d) ==
    LET answer == StitchedAnswer(d)
    IN  IF ~Truthy(answer)
        THEN Json(200, [EmptyBody EXCEPT
                 !.answer = Some(<<>>),
                 !.error = IF IsSome(d.error) /\ Truthy(Get(d.error)) THEN d.error
                           ELSE Some(L("No answer produced. Check FILE_IDS and logs."))])
        ELSE AnswerOnly(answer)

\* part_001 75-77
Part001Result(d) ==
    LET stitched == StitchedAnswer(d)
        answer == IF ~Truthy(stitched)
                  THEN L("Sorry, I couldn't find a clear answer in the uploaded files.")
                  ELSE stitched
    IN  Json(200, [EmptyBody EXCEPT !.answer = Some(answer), !.sources = Some(<<>>)])

\* part_002 58-60
Part002Result(d) ==
    LET outputText == IF Truthy(OutputTextOf(d)) THEN OutputTextOf(d)
                      ELSE L("Sorry, no answer.")
    IN  Json(200, [EmptyBody EXCEPT !.reply = Some(outputText)])

ResponsesResult(v, d) ==
    CASE v = "chat_responses" -> ChatResponsesResult(d)
      [] v = "part_001" -> Part001Result(d)
      [] v = "part_002" -> Part002Result(d)

ResponsesReturns ==
    /\ pc = "responses"
    /\ \/ \E s \in ErrStatuses, b \in ErrBodies :
            /\ reply' = ErrReply("responses", s, b)
            /\ IF variant = "part_002"
               THEN Throw(Error(<<"OpenAI error: ">> \o b.text))
               ELSE Respond(ErrorDetail(s, "OpenAI error", Text(b.text))) /\ UNCHANGED err
            /\ UNCHANGED data
       \/ \E d \in ResponsesPayloads :
            /\ reply' = OkReply("responses")
            /\ data' = Some(d)
            /\ Respond(ResponsesResult(variant, d))
            /\ UNCHANGED err
    /\ UNCHANGED <<variant, req, env, calls, run, now, start>>

\* chat.js 232-240, part_000 199-208
AssistantsResult(v, answer) ==
    IF ~Truthy(answer)
    THEN IF v = "chat_assistants"
         THEN Json(200, [EmptyBody EXCEPT !.answer = Some(<<>>),
                  !.error = Some(L("No answer produced. Ensure your vector store contains a small, clear test PDF and try again."))])
         ELSE Json(200, [EmptyBody EXCEPT !.answer = Some(<<>>),
                  !.hint = Some(L("No text returned. Ensure the vector store has a small test PDF."))])
    ELSE AnswerOnly(answer)

ExtractAssistantText(v, d) ==
    IF v = "chat_assistants" THEN LatestText(d) ELSE getLatestAssistantText(d)

ListMessagesReturns ==
    /\ pc = "list_messages"
    /\ \/ \E s \in ErrStatuses, b \in ErrBodies :
            /\ reply' = ErrReply("list_messages", s, b)
            /\ IF variant = "part_000"
               THEN Throw(Error(<<"List messages error ", StatusText(s), ": ">>
                                \o Stringify(readJsonOrText(b))))
               ELSE Respond(ErrorDetail(s, "List messages error", Text(b.text)))
                    /\ UNCHANGED err
            /\ UNCHANGED data
       \/ \E d \in ListPayloads(variant) :
            /\ reply' = OkReply("list_messages")
            /\ data' = Some(d)
            /\ Respond(AssistantsResult(variant, ExtractAssistantText(variant, d)))
            /\ UNCHANGED err
    /\ UNCHANGED <<variant, req, env, calls, run, now, start>>

\* an awaited fetch rejects (network failure): the catch block answers
Awaiting == {"responses", "create_assistant", "create_thread", "create_run",
             "run_status", "list_messages"}

FetchRejects ==
    /\ pc \in Awaiting
    /\ Throw(TypeError(L("fetch failed")))
    /\ UNCHANGED <<variant, req, env, calls, reply, data, run, now, start>>

Next ==
    \/ HandleRequest
    \/ CreateAssistantReturns
    \/ CreateThreadReturns
    \/ CreateRunReturns
    \/ PollCheck
    \/ RunStatusReturns
    \/ SleepReturns
    \/ ListMessagesReturns
    \/ ResponsesReturns
    \/ FetchRejects

Spec == Init /\ [][Next]_vars

\* every awaited promise settles and every runnable continuation runs
FairSpec == Spec /\ WF_vars(Next)

TypeOK ==
    /\ variant \in Variants
    /\ pc \in {"start", "poll", "sleep", "done"} \cup Awaiting
    /\ now >= start
    /\ (pc = "done") = IsSome(res)

----------------------------------------------------------------------------
(* Properties *)

Done == pc = "done"
Status == Get(res).status
Body == Get(res).body
StatusChecks == Len(SelectSeq(calls, LAMBDA c : c = "run_status"))
Listed == \E i \in 1..Len(calls) : calls[i] = "list_messages"

\* the question is missing, empty or whitespace-only
BlankQuestion ==
    LET qn == QuestionOf(req.body)
    IN  ~IsSome(qn) \/ Trim(Get(qn)) = <<>>

\* no API credential, or no identifier left after split, trim and filter
ConfigAbsent ==
    \/ ~IsSome(env.key) \/ Get(env.key) = <<>>
    \/ Len(ParseIds(env.ids)) = 0

\* C1: a POST whose question is missing, empty or whitespace-only is answered
\* with a 4xx status and no external call is ever issued for it.
C1_BlankQuestionRejected ==
    (req.method = "POST" /\ BlankQuestion) =>
        /\ calls = <<>>
        /\ Done => Status \in 400..499

\* C2: a POST with a non-empty question and absent configuration is answered
\* with status 500 and a configuration error, and no external call is issued.
C2_MissingConfigRejected ==
    (req.method = "POST" /\ ~BlankQuestion /\ ConfigAbsent) =>
        /\ calls = <<>>
        /\ Done => (Status = 500 /\ IsSome(Body.error))

\* C3: an OPTIONS request is answered with 200 and causes no external call,
\* whatever the body and the configuration are.
C3_OptionsAlways200 ==
    req.method = "OPTIONS" =>
        /\ calls = <<>>
        /\ Done => Status = 200

\* C4: when an external call returns a non-success status S with payload D,
\* the response to the caller has status S and carries D as its detail.
C4_UpstreamErrorRelayed ==
    (Done /\ ~reply.ok) =>
        /\ Status = reply.status
        /\ IsSome(Body.detail)
        /\ Get(Body.detail).text = reply.body.text


Polling == variant \in PollingVariants
LastCall == calls[Len(calls)]
Detail == Get(Body.detail).text

\* C5: when a status check observes completed, waitForRun returns at that
\* check, the handler issues the message-listing call next, and no status
\* check follows the one that observed the terminal status; messages are
\* listed only after completed was observed.
C5_CompletedStopsPolling ==
    /\ run.status = "completed" =>
          /\ pc \in {"list_messages", "done"}
          /\ Len(calls) >= 2
          /\ LastCall = "list_messages"
          /\ calls[Len(calls) - 1] = "run_status"
    /\ Listed => (Polling /\ run.status = "completed")

\* queued -> in_progress -> completed: three checks, then the listing, then an answer
C5_Witness ==
    /\ Done /\ Polling
    /\ run.status = "completed"
    /\ StatusChecks = 3
    /\ LastCall = "list_messages"
    /\ Status = 200 /\ Body.answer = Some(<<"A">>)

\* C6: when a status check observes failed, cancelled or expired, the request
\* fails with status 500 and no message listing is issued; the error text
\* contains last_error.message when one was reported and the bare status
\* name otherwise.
C6_FailedRunSurfaced ==
    run.status \in FailedStatuses =>
        /\ Done /\ Status = 500
        /\ ~Listed
        /\ IsSome(Body.detail)
        /\ IF IsSome(run.last_error) /\ IsSome(Get(run.last_error).message)
           THEN Contains(Detail, Get(Get(run.last_error).message))
           ELSE Contains(Detail, <<run.status>>)

C6_Witness ==
    /\ Done /\ Polling
    /\ run.status = "failed"
    /\ LastErrorMessage(run) = <<"boom">>
    /\ Status = 500
    /\ Contains(Detail, <<"boom">>)
    /\ StatusChecks >= 2

\* the timeout bound the documentation states for each polling variant
StatedTimeout == IF variant = "chat_assistants" THEN 45000 ELSE 60000
TimedOut == IsSome(err) /\ Get(err).message = TimeoutMessage
InLoop == pc \in {"poll", "run_status", "sleep"}
StartsCheck == calls' # calls /\ calls'[Len(calls')] = "run_status"

\* C7: the poll loop eventually stops; no status check is started once the
\* elapsed time has reached the timeout bound, and the loop head reached then
\* fails the request with status 500 and the message "Run timed out waiting
\* for completion"; a timeout is never reported once a terminal status was
\* observed.
C7_TimeoutEndsPolling ==
    /\ [](InLoop => <>(~InLoop))
    /\ [][StartsCheck => now - start < StatedTimeout]_vars
    /\ [][(pc = "poll" /\ now - start >= StatedTimeout) =>
            (pc' = "done" /\ calls' = calls /\ Get(err').message = TimeoutMessage)]_vars
    /\ [](TimedOut =>
            /\ Done /\ Status = 500
            /\ Contains(Detail, TimeoutMessage)
            /\ run.status \notin TerminalStatuses
            /\ now - start >= StatedTimeout)

C7_Witness ==
    /\ TimedOut /\ Done
    /\ variant = "chat_assistants"
    /\ now - start = 45000
    /\ Status = 500
    /\ run.status = "in_progress"

\* the variant's own extraction yields the empty string
ExtractedEmpty ==
    CASE variant \in PollingVariants -> ExtractAssistantText(variant, Get(data)) = <<>>
      [] variant = "part_002" -> OutputTextOf(Get(data)) = <<>>
      [] OTHER -> StitchedAnswer(Get(data)) = <<>>

\* C8: when all external calls succeed but the extracted text is empty, the
\* response is a 200 whose answer is exactly the empty string and which
\* carries a hint (hint or error field).
C8_EmptyAnswerWithHint ==
    (Done /\ IsSome(data) /\ ExtractedEmpty) =>
        /\ Status = 200
        /\ Body.answer = Some(<<>>)
        /\ IsSome(Body.hint) \/ IsSome(Body.error)

\* the answer the synchronous protocol is documented to return
StatedStitch(d) ==
    IF IsSome(d.output_text) /\ Get(d.output_text) # <<>>
    THEN Get(d.output_text)
    ELSE IF IsSome(d.output) THEN Trim(Join(OutputParts(Get(d.output)), <<"\n">>))
    ELSE <<>>

\* C9: in the synchronous variants the returned answer equals output_text
\* when that is non-empty, and otherwise the output_text segments of the
\* message items of output, in order, joined by newline and trimmed.
C9_ResponsesAnswer ==
    (variant \in ResponsesVariants /\ Done /\ IsSome(data)) =>
        Body.answer = Some(StatedStitch(Get(data)))

\* the answer the asynchronous protocol is documented to return
StatedLatest(d) ==
    LET list == IF IsSome(d.data) THEN Get(d.data) ELSE <<>>
        found == SelectSeq(list, IsAssistant)
    IN  IF found = <<>> THEN <<>>
        ELSE LET kept == SelectSeq(found[1].content, IsTextPart)
             IN  Trim(Concat([i \in 1..Len(kept) |-> PartValue(kept[i])]))

\* C10: in the polling variants the answer is taken from the first listed
\* message whose role is assistant and equals the concatenation, in order,
\* of its text segments, trimmed; it is empty when no assistant message is
\* listed.
C10_LatestAssistantAnswer ==
    (Polling /\ Done /\ IsSome(data)) =>
        Body.answer = Some(StatedLatest(Get(data)))

\* how often a call was issued
Issued(call) == Len(SelectSeq(calls, LAMBDA c : c = call))
OnceOnlyCalls == {"create_assistant", "create_thread", "create_run",
                  "list_messages", "responses"}
IssuesCall == calls' # calls

\* C11: external calls are issued one at a time, each only after the call
\* before it was answered with success; create-assistant, create-thread,
\* create-run, list-messages and the synchronous generation call are issued
\* at most once, only the run-status check is repeated; once a call returns
\* a non-success status the request is answered with an error and no further
\* call is issued.
C11_NoRetries ==
    /\ [](\A c \in OnceOnlyCalls : Issued(c) <= 1)
    /\ [](~reply.ok =>
            /\ Done
            /\ Status \in 400..599
            /\ IsSome(Body.error))
    /\ [][IssuesCall =>
            /\ calls' = Append(calls, calls'[Len(calls')])
            /\ calls # <<>> => (reply'.call = LastCall /\ reply'.ok)
            /\ (calls # <<>> /\ calls'[Len(calls')] = LastCall) => LastCall = "run_status"]_vars
    /\ [][~reply.ok => calls' = calls]_vars

\* the status check was repeated, then answered 429: the request ends there
C11_Witness ==
    /\ Done /\ Polling
    /\ ~reply.ok /\ reply.call = "run_status" /\ reply.status = 429
    /\ calls = <<"create_assistant", "create_thread", "create_run",
                 "run_status", "run_status", "run_status">>
    /\ Status = 500

====
